---- MODULE Spec2Model ----
(***************************************************************************)
(* Episode link formatter bot (src/bot.py).                                *)
(*                                                                         *)
(* Text is modelled as a sequence of characters, each character a string   *)
(* of length one.  The decorative glyphs of the renderer are characters    *)
(* named "B0".."B9" (bold digits), "BP" (bold P) and "ARROW".              *)
(***************************************************************************)
EXTENDS Integers, Sequences, FiniteSets, TLC

(***************************************************************************)
(* Characters and the character classes of the pattern (line 33).          *)
(***************************************************************************)
Digits == {"0", "1", "2", "3", "4", "5", "6", "7", "8", "9"}

\* \s of the pattern
Whitespace == {" ", "\n", "\t"}

\* '.' of the pattern matches every character but the line break
NEWLINE == "\n"

IsDigit(c) == c \in Digits

IsSpace(c) == c \in Whitespace

\* the literal  https://t\.me/  of the pattern
URL_PREFIX == <<"h", "t", "t", "p", "s", ":", "/", "/", "t", ".", "m", "e", "/">>

\* the alternation (480|720|1080) of the pattern, in its order
QUALITY_ALTERNATIVES == << <<"4", "8", "0">>, <<"7", "2", "0">>, <<"1", "0", "8", "0">> >>

\* the display order ['480', '720', '1080'] of format_output (line 66)
QUALITIES == << <<"4", "8", "0">>, <<"7", "2", "0">>, <<"1", "0", "8", "0">> >>

QualitySet == {QUALITIES[i] : i \in 1..Len(QUALITIES)}

\* value returned where the pattern does not match
NoMatch == [matched |-> FALSE]

(***************************************************************************)
(* The matcher: re.finditer(pattern, text) with                            *)
(*   pattern = S(\d+)-E(\d+).*?(480|720|1080).*?(https://t\.me/[^\s]+)     *)
(* A backtracking matcher: greedy \d+ and [^\s]+ try the longest run       *)
(* first, lazy .*? tries the shortest gap first and never crosses a line   *)
(* break.                                                                  *)
(***************************************************************************)
\* lit occurs in t at position i
HasLit(t, i, lit) ==
    /\ i >= 1
    /\ i + Len(lit) - 1 <= Len(t)
    /\ \A k \in 1..Len(lit) : t[i + k - 1] = lit[k]

\* the least element of a non-empty set of positions
Least(S) == CHOOSE x \in S : \A y \in S : x <= y

\* the greatest element of a non-empty set of positions
Greatest(S) == CHOOSE x \in S : \A y \in S : x >= y

\* the least element of S, Len(t) + 1 if S is empty
FirstOf(t, S) == IF S = {} THEN Len(t) + 1 ELSE Least(S)

\* length of the longest run of digits of t starting at i
DigitRun(t, i) ==
    IF i > Len(t) THEN 0
    ELSE FirstOf(t, {j \in i..Len(t) : ~IsDigit(t[j])}) - i

\* length of the longest run of non-whitespace characters of t starting at i
NonSpaceRun(t, i) ==
    IF i > Len(t) THEN 0
    ELSE FirstOf(t, {j \in i..Len(t) : IsSpace(t[j])}) - i

\* '.' as under re.DOTALL: it takes the line break too
DotReachAcrossLines(t, i) == i..(Len(t) + 1)

\* the positions a lazy .*? starting at i can stop before: '.' takes no line break
DotReach(t, i) == i..FirstOf(t, {j \in i..Len(t) : t[j] = NEWLINE})

\* the URL group with [^\s]* in place of [^\s]+ : the prefix alone matches
MatchUrlEmptyTail(t, i) ==
    IF HasLit(t, i, URL_PREFIX)
    THEN i + Len(URL_PREFIX) + NonSpaceRun(t, i + Len(URL_PREFIX))
    ELSE 0

\* the URL group with [^\s] in place of [^\s]+ : one character after the prefix
MatchUrlOneCharacter(t, i) ==
    IF HasLit(t, i, URL_PREFIX) /\ NonSpaceRun(t, i + Len(URL_PREFIX)) >= 1
    THEN i + Len(URL_PREFIX) + 1
    ELSE 0

\* (https://t\.me/[^\s]+) at position i: the position after the URL, 0 if none
MatchUrl(t, i) ==
    IF HasLit(t, i, URL_PREFIX) /\ NonSpaceRun(t, i + Len(URL_PREFIX)) >= 1
    THEN i + Len(URL_PREFIX) + NonSpaceRun(t, i + Len(URL_PREFIX))
    ELSE 0

\* .*?(https://t\.me/[^\s]+) from position i: start of the URL (the lazy gap is
\* the shortest that lets the URL match), 0 if none
LazyUrl(t, i) ==
    LET S == {j \in DotReach(t, i) : MatchUrl(t, j) # 0}
    IN  IF i > Len(t) \/ S = {} THEN 0 ELSE Least(S)

\* (480|720|1080) at position i: the index of the alternative, 0 if none
QualityAt(t, i) ==
    IF \E a \in 1..Len(QUALITY_ALTERNATIVES) : HasLit(t, i, QUALITY_ALTERNATIVES[a])
    THEN CHOOSE a \in 1..Len(QUALITY_ALTERNATIVES) :
            /\ HasLit(t, i, QUALITY_ALTERNATIVES[a])
            /\ \A b \in 1..(a - 1) : ~HasLit(t, i, QUALITY_ALTERNATIVES[b])
    ELSE 0

\* (480|720|1080).*?(https://t\.me/[^\s]+) at position i: start of the URL, 0 if none
QualityThenUrl(t, i) ==
    LET a == QualityAt(t, i)
    IN  IF a = 0 THEN 0 ELSE LazyUrl(t, i + Len(QUALITY_ALTERNATIVES[a]))

\* .*?(480|720|1080).*?(https://t\.me/[^\s]+) from position i: the lazy gap is the
\* shortest that lets the rest of the pattern match
LazyQuality(t, i) ==
    LET S == {j \in DotReach(t, i) : QualityThenUrl(t, j) # 0}
    IN  IF i > Len(t) \/ S = {} THEN NoMatch
        ELSE LET j == Least(S)
                 u == QualityThenUrl(t, j)
             IN  [matched |-> TRUE,
                  quality |-> QUALITY_ALTERNATIVES[QualityAt(t, j)],
                  url     |-> SubSeq(t, u, MatchUrl(t, u) - 1),
                  end     |-> MatchUrl(t, u)]

\* (\d+) of the episode at position i: greedy, the longest run of at most k
\* digits that lets the rest of the pattern match
GreedyEpisode(t, i, k) ==
    LET S == {n \in 1..k : LazyQuality(t, i + n).matched}
    IN  IF S = {} THEN NoMatch
        ELSE LET n == Greatest(S)
                 r == LazyQuality(t, i + n)
             IN  [matched |-> TRUE,
                  episode |-> SubSeq(t, i, i + n - 1),
                  quality |-> r.quality,
                  url     |-> r.url,
                  end     |-> r.end]

\* -E(\d+)... after a season of n digits at position i
AfterSeason(t, i, n) ==
    IF HasLit(t, i + n, <<"-", "E">>)
    THEN GreedyEpisode(t, i + n + 2, DigitRun(t, i + n + 2))
    ELSE NoMatch

\* (\d+)-E of the season at position i: greedy, the longest run of at most k
\* digits that lets the rest of the pattern match
GreedySeason(t, i, k) ==
    LET S == {n \in 1..k : AfterSeason(t, i, n).matched}
    IN  IF S = {} THEN NoMatch
        ELSE LET n == Greatest(S)
                 r == AfterSeason(t, i, n)
             IN  [matched |-> TRUE,
                  season  |-> SubSeq(t, i, i + n - 1),
                  episode |-> r.episode,
                  quality |-> r.quality,
                  url     |-> r.url,
                  start   |-> i - 1,
                  end     |-> r.end]

\* the pattern anchored at position pos
MatchAt(t, pos) ==
    IF pos <= Len(t) /\ t[pos] = "S"
    THEN GreedySeason(t, pos + 1, DigitRun(t, pos + 1))
    ELSE NoMatch

\* the matches of the pattern anchored at each position of t
AnchoredMatches(t) == {MatchAt(t, p) : p \in 1..Len(t)} \ {NoMatch}

RECURSIVE FindIterFrom(_, _)
\* of the anchored matches ms, the non-overlapping ones from position pos, left
\* to right: the leftmost match, then on from its end
FindIterFrom(ms, pos) ==
    LET S == {m \in ms : m.start >= pos}
    IN  IF S = {} THEN << >>
        ELSE LET m == CHOOSE x \in S : \A y \in S : x.start <= y.start
             IN  <<m>> \o FindIterFrom(S, m.end)

\* re.finditer(pattern, t)
finditer(t) == FindIterFrom(AnchoredMatches(t), 1)

(***************************************************************************)
(* parse_bulk_output (lines 28-50).  A dict is a sequence of entries in    *)
(* insertion order; the inner dict of an episode is a function from the    *)
(* qualities it holds to their URLs.                                       *)
(***************************************************************************)
\* width of episode.zfill(2)
ZFILL_WIDTH == 2

RECURSIVE zfill(_, _)
\* str.zfill: pads with "0" on the left up to the width, never truncates
zfill(s, width) ==
    IF Len(s) >= width THEN s ELSE zfill(<<"0">> \o s, width)

\* ep_key = f"E{episode.zfill(2)}"
EpKey(episode) == <<"E">> \o zfill(episode, ZFILL_WIDTH)

\* the keys of the dict, in insertion order
Keys(episodes) == [i \in 1..Len(episodes) |-> episodes[i].key]

HasKey(episodes, k) == \E i \in 1..Len(episodes) : episodes[i].key = k

\* episodes[k]
Lookup(episodes, k) ==
    episodes[CHOOSE i \in 1..Len(episodes) : episodes[i].key = k].links

\* a store that keeps the URL a pair already has
DictStoreKeepFirst(episodes, k, q, u) ==
    IF \E i \in 1..Len(episodes) : episodes[i].key = k /\ q \in DOMAIN episodes[i].links
    THEN episodes
    ELSE IF \E i \in 1..Len(episodes) : episodes[i].key = k
    THEN [i \in 1..Len(episodes) |->
            IF episodes[i].key = k
            THEN [key |-> k,
                  links |-> [x \in DOMAIN episodes[i].links \cup {q} |->
                                IF x = q THEN u ELSE episodes[i].links[x]]]
            ELSE episodes[i]]
    ELSE Append(episodes, [key |-> k, links |-> [x \in {q} |-> u]])

\* if ep_key not in episodes: episodes[ep_key] = {} ; episodes[ep_key][quality] = url
DictStore(episodes, k, q, u) ==
    IF HasKey(episodes, k)
    THEN [i \in 1..Len(episodes) |->
            IF episodes[i].key = k
            THEN [key |-> k,
                  links |-> [x \in DOMAIN episodes[i].links \cup {q} |->
                                IF x = q THEN u ELSE episodes[i].links[x]]]
            ELSE episodes[i]]
    ELSE Append(episodes, [key |-> k, links |-> [x \in {q} |-> u]])

RECURSIVE Strip(_)
\* str.strip(): removes the leading and trailing whitespace
Strip(s) ==
    IF s # << >> /\ IsSpace(Head(s)) THEN Strip(Tail(s))
    ELSE IF s # << >> /\ IsSpace(s[Len(s)]) THEN Strip(SubSeq(s, 1, Len(s) - 1))
    ELSE s

RECURSIVE AccumulateBySeason(_, _)
\* a loop whose key keeps the season:  ep_key = f"E{season}{episode.zfill(2)}"
AccumulateBySeason(episodes, matches) ==
    IF matches = << >> THEN episodes
    ELSE LET match == Head(matches)
         IN  AccumulateBySeason(
                DictStore(episodes,
                          <<"E">> \o match.season \o zfill(match.episode, ZFILL_WIDTH),
                          match.quality, Strip(match.url)),
                Tail(matches))

RECURSIVE Accumulate(_, _)
\* the loop over the matches (lines 37-48), from the index built so far
Accumulate(episodes, matches) ==
    IF matches = << >> THEN episodes
    ELSE LET match == Head(matches)
         IN  Accumulate(DictStore(episodes, EpKey(match.episode), match.quality,
                                  Strip(match.url)),
                        Tail(matches))

parse_bulk_output(t) == Accumulate(<< >>, finditer(t))

(***************************************************************************)
(* format_output (lines 52-83).                                            *)
(***************************************************************************)
DigitValue ==
    ("0" :> 0) @@ ("1" :> 1) @@ ("2" :> 2) @@ ("3" :> 3) @@ ("4" :> 4) @@
    ("5" :> 5) @@ ("6" :> 6) @@ ("7" :> 7) @@ ("8" :> 8) @@ ("9" :> 9)

RECURSIVE ToInt(_)
\* int() of a string of decimal digits
ToInt(s) ==
    IF s = << >> THEN 0
    ELSE 10 * ToInt(SubSeq(s, 1, Len(s) - 1)) + DigitValue[s[Len(s)]]

\* a sort on the key as text: the digits compared from the left
SortKeyLexicographic(entry) ==
    LET d == Tail(entry.key)
    IN  ToInt(d \o [i \in 1..(3 - Len(d)) |-> "0"])

\* the sort key  lambda x: int(x[0][1:])
SortKey(entry) == ToInt(Tail(entry.key))

\* one step of a stable sort: x goes after the entries whose key is not larger
InsertSorted(s, x) ==
    LET n == Cardinality({i \in 1..Len(s) : SortKey(s[i]) <= SortKey(x)})
    IN  SubSeq(s, 1, n) \o <<x>> \o SubSeq(s, n + 1, Len(s))

RECURSIVE SortFrom(_, _)
SortFrom(done, rest) ==
    IF rest = << >> THEN done
    ELSE SortFrom(InsertSorted(done, Head(rest)), Tail(rest))

\* sorted(episodes.items(), key=lambda x: int(x[0][1:])): stable, ascending
sorted_eps(episodes) == SortFrom(<< >>, episodes)

\* bold_nums = str.maketrans('0123456789', <bold digits>)
bold_nums ==
    ("0" :> "B0") @@ ("1" :> "B1") @@ ("2" :> "B2") @@ ("3" :> "B3") @@
    ("4" :> "B4") @@ ("5" :> "B5") @@ ("6" :> "B6") @@ ("7" :> "B7") @@
    ("8" :> "B8") @@ ("9" :> "B9")

\* str.translate(bold_nums): digits become bold, the other characters stay
translate(s) ==
    [i \in 1..Len(s) |-> IF s[i] \in DOMAIN bold_nums THEN bold_nums[s[i]] ELSE s[i]]

\* bold_quality = f"{quality}P".translate(bold_nums), P being the bold glyph
BoldQuality(quality) == translate(quality \o <<"BP">>)

A_OPEN == <<"<", "a", " ", "h", "r", "e", "f", "=", "\"">>

A_MID == <<"\"", ">">>

A_CLOSE == <<"<", "/", "a", ">">>

S_OPEN == <<"<", "s", ">">>

S_CLOSE == <<"<", "/", "s", ">">>

\* a rendering that links every tier, a missing one to an empty target
QualityLinkNoPlaceholder(qualities, quality) ==
    A_OPEN \o (IF quality \in DOMAIN qualities THEN qualities[quality] ELSE << >>)
        \o A_MID \o BoldQuality(quality) \o A_CLOSE

\* the entry of quality_links of one quality (lines 67-74)
QualityLink(qualities, quality) ==
    IF quality \in DOMAIN qualities
    THEN A_OPEN \o qualities[quality] \o A_MID \o BoldQuality(quality) \o A_CLOSE
    ELSE S_OPEN \o BoldQuality(quality) \o S_CLOSE

Spaces(n) == [i \in 1..n |-> " "]

\* the runs of spaces of the line template (line 80)
GAP_EP == 6

GAP_FIRST == 6

GAP_SECOND == 7

\* line = f"<arrow> {bold_ep}      {links[0]}      {links[1]}       {links[2]}"
FormatLine(ep_num, qualities) ==
    <<"ARROW", " ">> \o translate(ep_num) \o Spaces(GAP_EP)
        \o QualityLink(qualities, QUALITIES[1]) \o Spaces(GAP_FIRST)
        \o QualityLink(qualities, QUALITIES[2]) \o Spaces(GAP_SECOND)
        \o QualityLink(qualities, QUALITIES[3])

RECURSIVE Join(_, _)
\* sep.join(parts)
Join(parts, sep) ==
    IF parts = << >> THEN << >>
    ELSE IF Len(parts) = 1 THEN parts[1]
    ELSE parts[1] \o sep \o Join(Tail(parts), sep)

\* output_lines of format_output
OutputLines(episodes) ==
    LET sorted == sorted_eps(episodes)
    IN  [i \in 1..Len(sorted) |-> FormatLine(sorted[i].key, sorted[i].links)]

format_output(episodes) == Join(OutputLines(episodes), <<NEWLINE>>)

\* int(x[0][1:]) raises ValueError unless the key is a letter followed by digits
IsNumber(s) == s # << >> /\ \A i \in 1..Len(s) : IsDigit(s[i])

\* a format_output that begins with  if not episodes: raise ValueError
FormatRaisesOnEmpty(episodes) ==
    \/ episodes = << >>
    \/ \E i \in 1..Len(episodes) :
          episodes[i].key = << >> \/ ~IsNumber(Tail(episodes[i].key))

\* format_output has no raise statement: it fails only where int() fails
FormatRaises(episodes) ==
    \E i \in 1..Len(episodes) :
        episodes[i].key = << >> \/ ~IsNumber(Tail(episodes[i].key))

(***************************************************************************)
(* Inputs.  A record line is  S<season>-E<episode> <quality>p <url> .      *)
(***************************************************************************)
Url(tail) == URL_PREFIX \o tail

RecordLine(season, episode, quality, url) ==
    <<"S">> \o season \o <<"-", "E">> \o episode \o <<" ">> \o quality
        \o <<"p", " ">> \o url

UrlA == Url(<<"a">>)

UrlB == Url(<<"b", "7">>)

Q480 == QUALITIES[1]

Q720 == QUALITIES[2]

Q1080 == QUALITIES[3]

\* lines that hold a record: episode 5 written as 5, 05 and 005, twice under the
\* same quality with different URLs and seasons, and episode 12
RecordLines ==
    { RecordLine(<<"1">>, <<"5">>, Q720, UrlA),
      RecordLine(<<"0", "2">>, <<"0", "5">>, Q720, UrlB),
      RecordLine(<<"1">>, <<"0", "0", "5">>, Q480, UrlA),
      RecordLine(<<"1">>, <<"1", "2">>, Q1080, UrlA) }

\* a line whose URL has nothing after the prefix
NoUrlLine ==
    <<"S", "1", "-", "E", "5", " ", "7", "2", "0", " ">> \o URL_PREFIX

\* a line without season and episode marker before the quality
NoMarkerLine == <<"7", "2", "0", " ">> \o UrlA

\* a line whose URL lacks the https scheme
NoSchemeLine ==
    <<"S", "1", "-", "E", "5", " ", "7", "2", "0", " ",
      "h", "t", "t", "p", ":", "/", "/", "t", ".", "m", "e", "/", "a">>

\* lines in which some field of the pattern is missing
JunkLines == {NoUrlLine, NoMarkerLine, NoSchemeLine}

LinePool == RecordLines \cup JunkLines

\* largest number of lines of an input text
MaxLines == 3

Texts ==
    {Join(ls, <<NEWLINE>>) : ls \in UNION {[1..n -> LinePool] : n \in 0..MaxLines}}

\* keys, in the forms a caller of format_output may use
KeyPool == { <<"E", "2">>, <<"E", "0", "9">>, <<"E", "1", "0">> }

UrlPool == {UrlA, UrlB}

\* largest number of stores that build an index directly
MaxStores == 3

\* texts a user may send: a line with a record, and a line without
MsgPool ==
    { RecordLine(<<"1">>, <<"5">>, Q720, UrlA),
      <<"h", "i">> }

Users == {"u1", "u2"}

\* largest number of updates handled in a run of the bot
MaxUpdates == 5

(***************************************************************************)
(* State.                                                                  *)
(*   user_sessions   the global dict of line 26                            *)
(*   calls           the calls of parse_bulk_output and format_output made *)
(*                   by the last handler, with their arguments             *)
(*   replies         the replies sent by the last handler                  *)
(*   received        per user, the session commands and the texts received *)
(*                   from the user's last /upload on, in arrival order     *)
(*   handled         the number of updates handled so far                  *)
(*   awaiting        the runs of format_command suspended at the await of  *)
(*                   the reply that sends the result (line 262), each with *)
(*                   its locals                                            *)
(* and, for the two functions called on their own,                         *)
(*   source          where the index comes from: a text, or direct stores  *)
(*   text            the argument of parse_bulk_output                     *)
(*   episodes        the index                                             *)
(*   output, outcome the text format_output returned, or that it raised    *)
(*   stores          the number of direct stores made                      *)
(*   pc              the position in the pipeline                          *)
(***************************************************************************)
VARIABLES user_sessions, calls, replies, received, handled, awaiting,
          source, text, episodes, output, outcome, stores, pc

botVars == <<user_sessions, calls, replies, received, handled, awaiting>>

coreVars == <<source, text, episodes, output, outcome, stores, pc>>

vars == <<user_sessions, calls, replies, received, handled, awaiting,
          source, text, episodes, output, outcome, stores, pc>>

BotInit ==
    /\ user_sessions = << >>
    /\ calls = << >>
    /\ replies = << >>
    /\ received = [u \in Users |-> << >>]
    /\ handled = 0
    /\ awaiting = << >>

CoreIdle ==
    /\ source = "none"
    /\ text = << >>
    /\ episodes = << >>
    /\ output = << >>
    /\ outcome = "none"
    /\ stores = 0
    /\ pc = "idle"

(***************************************************************************)
(* The two functions called on their own: parse_bulk_output on a text, or  *)
(* an index built store by store, then format_output on the index.         *)
(***************************************************************************)
CoreInit ==
    /\ BotInit
    /\ \/ source = "text" /\ text \in Texts
       \/ source = "stores" /\ text = << >>
    /\ episodes = << >>
    /\ output = << >>
    /\ outcome = "none"
    /\ stores = 0
    /\ pc = "start"

\* parse_bulk_output filling an index kept from one call to the next
CoreParseKeepsIndex ==
    /\ source = "text"
    /\ pc = "start"
    /\ episodes' = Accumulate(episodes, finditer(text))
    /\ pc' = "parsed"
    /\ UNCHANGED <<source, text, output, outcome, stores, botVars>>

\* episodes = parse_bulk_output(text)
CoreParse ==
    /\ source = "text"
    /\ pc = "start"
    /\ episodes' = parse_bulk_output(text)
    /\ pc' = "parsed"
    /\ UNCHANGED <<source, text, output, outcome, stores, botVars>>

\* episodes[k][q] = u on an index under construction
CoreStore(k, q, u) ==
    /\ source = "stores"
    /\ pc = "start"
    /\ stores < MaxStores
    /\ episodes' = DictStore(episodes, k, q, u)
    /\ stores' = stores + 1
    /\ UNCHANGED <<source, text, output, outcome, pc, botVars>>

\* output = format_output(episodes)
CoreFormat ==
    /\ \/ source = "text" /\ pc = "parsed"
       \/ source = "stores" /\ pc = "start"
    /\ IF FormatRaises(episodes)
       THEN outcome' = "raised" /\ output' = << >>
       ELSE outcome' = "returned" /\ output' = format_output(episodes)
    /\ pc' = "formatted"
    /\ UNCHANGED <<source, text, episodes, stores, botVars>>

CoreNext ==
    \/ CoreParse
    \/ \E k \in KeyPool, q \in QualitySet, u \in UrlPool : CoreStore(k, q, u)
    \/ CoreFormat

SpecCore == CoreInit /\ [][CoreNext]_vars

(***************************************************************************)
(* The two functions called again and again in one process, whatever       *)
(* sessions the bot holds: the objects of the earlier call are still there *)
(* when the next call starts.                                              *)
(***************************************************************************)
\* texts of at most two records
CallTexts ==
    {Join(ls, <<NEWLINE>>) : ls \in UNION {[1..n -> RecordLines] : n \in 0..2}}

\* session tables the calls may find
SessionTables ==
    { << >>,
      [u \in {"u1"} |-> [collecting |-> TRUE,
                         messages |-> <<RecordLine(<<"1">>, <<"5">>, Q720, UrlA)>>]] }

CallsInit ==
    /\ user_sessions \in SessionTables
    /\ calls = << >>
    /\ replies = << >>
    /\ received = [u \in Users |-> << >>]
    /\ handled = 0
    /\ awaiting = << >>
    /\ source = "text"
    /\ text \in CallTexts
    /\ episodes = << >>
    /\ output = << >>
    /\ outcome = "none"
    /\ stores = 0
    /\ pc = "start"

\* the next call of parse_bulk_output, on text t
CoreCallAgain(t) ==
    /\ pc = "formatted"
    /\ text' = t
    /\ pc' = "start"
    /\ UNCHANGED <<source, episodes, output, outcome, stores, botVars>>

CallsNext ==
    \/ CoreParse
    \/ CoreFormat
    \/ \E t \in CallTexts : CoreCallAgain(t)

SpecCalls == CallsInit /\ [][CallsNext]_vars

(***************************************************************************)
(* Reading a rendered text back: its lines, the episode label of a line    *)
(* and the tier fields of a line, as a reader of the markup sees them.     *)
(***************************************************************************)
\* the first position of character c in t at or after i, 0 if there is none
IndexOf(t, i, c) ==
    LET S == {j \in i..Len(t) : t[j] = c}
    IN  IF S = {} THEN 0 ELSE Least(S)

RECURSIVE SplitLines(_)
\* the lines of a text; the empty text has no line
SplitLines(t) ==
    IF t = << >> THEN << >>
    ELSE LET n == IndexOf(t, 1, NEWLINE)
         IN  IF n = 0 THEN <<t>>
             ELSE IF n = Len(t) THEN <<SubSeq(t, 1, n - 1), << >> >>
             ELSE <<SubSeq(t, 1, n - 1)>> \o SplitLines(SubSeq(t, n + 1, Len(t)))

PlainDigit ==
    ("B0" :> "0") @@ ("B1" :> "1") @@ ("B2" :> "2") @@ ("B3" :> "3") @@
    ("B4" :> "4") @@ ("B5" :> "5") @@ ("B6" :> "6") @@ ("B7" :> "7") @@
    ("B8" :> "8") @@ ("B9" :> "9") @@ ("BP" :> "P")

\* the plain reading of a bold label
Plain(label) ==
    [i \in 1..Len(label) |->
        IF label[i] \in DOMAIN PlainDigit THEN PlainDigit[label[i]] ELSE label[i]]

\* the episode label of a rendered line: what stands between the arrow and the
\* first run of spaces, read plainly
LineLabel(line) ==
    LET n == IndexOf(line, 3, " ")
    IN  IF Len(line) >= 3 /\ line[1] = "ARROW" /\ line[2] = " " /\ n > 3
        THEN Plain(SubSeq(line, 3, n - 1))
        ELSE << >>

\* the number a label shows after its first character
LabelNumber(label) == ToInt(Tail(label))

RECURSIVE FieldsFrom(_, _)
\* the tier fields of a rendered line from position i, left to right: a link
\* with its target and label, or a struck-through label
FieldsFrom(line, i) ==
    LET lt == IndexOf(line, i, "<")
    IN  IF lt = 0 THEN << >>
        ELSE IF HasLit(line, lt, <<"<", "a", " ", "h", "r", "e", "f", "=", "\"">>)
        THEN LET from == lt + 9
                 quote == IndexOf(line, from, "\"")
                 close == IF quote = 0 THEN 0 ELSE IndexOf(line, quote, "<")
             IN  IF quote = 0 \/ close = 0 \/ ~HasLit(line, quote, <<"\"", ">">>)
                    \/ ~HasLit(line, close, <<"<", "/", "a", ">">>)
                 THEN << [kind |-> "malformed"] >>
                 ELSE << [kind   |-> "link",
                          target |-> SubSeq(line, from, quote - 1),
                          label  |-> Plain(SubSeq(line, quote + 2, close - 1))] >>
                      \o FieldsFrom(line, close + 4)
        ELSE IF HasLit(line, lt, <<"<", "s", ">">>)
        THEN LET close == IndexOf(line, lt + 3, "<")
             IN  IF close = 0 \/ ~HasLit(line, close, <<"<", "/", "s", ">">>)
                 THEN << [kind |-> "malformed"] >>
                 ELSE << [kind  |-> "struck",
                          label |-> Plain(SubSeq(line, lt + 3, close - 1))] >>
                      \o FieldsFrom(line, close + 4)
        ELSE << [kind |-> "malformed"] >>

LineFields(line) == FieldsFrom(line, 1)

OutputLinesOf(t) == SplitLines(t)

\* format_output has returned a text for the index in episodes
Formatted == pc = "formatted" /\ outcome = "returned"

(***************************************************************************)
(* C1: whatever the insertion order of the keys of the index, format_output *)
(* emits exactly one line per key, labelled with that key, and the lines   *)
(* stand in ascending order of the number after the key's E (numeric, not  *)
(* lexicographic).                                                         *)
(***************************************************************************)
C1_OneLinePerKeyAscending ==
    Formatted =>
        LET ls == OutputLinesOf(output)
        IN  /\ Len(ls) = Len(episodes)
            /\ \A i \in 1..Len(episodes) :
                  Cardinality({j \in 1..Len(ls) : LineLabel(ls[j]) = episodes[i].key}) = 1
            /\ \A i \in 1..Len(ls), j \in 1..Len(ls) :
                  i < j => LabelNumber(LineLabel(ls[i])) <= LabelNumber(LineLabel(ls[j]))

\* E10 was inserted before E2 and E09, and the index has been rendered
C1_Witness ==
    /\ Formatted
    /\ Keys(episodes) = << <<"E", "1", "0">>, <<"E", "2">>, <<"E", "0", "9">> >>

\* parse_bulk_output has returned the index in episodes for the text
Parsed == source = "text" /\ pc \in {"parsed", "formatted"}

\* parse_bulk_output has just returned
ParseReturned == source = "text" /\ pc = "parsed"

\* the index of text has been rendered
Rendered == source = "text" /\ Formatted

\* the tiers in the fixed order of the rendered line, as a reader sees their labels
TierLabels ==
    << <<"4", "8", "0", "P">>, <<"7", "2", "0", "P">>, <<"1", "0", "8", "0", "P">> >>

\* of the lines ls of a rendered text, those whose label is key k
LinesOfKey(ls, k) == {j \in 1..Len(ls) : LineLabel(ls[j]) = k}

\* the targets of the links labelled with quality q on line l
LinkTargets(l, q) ==
    LET fs == LineFields(l)
    IN  {fs[i].target : i \in {n \in 1..Len(fs) :
                                  fs[n].kind = "link" /\ fs[n].label = q \o <<"P">>}}

\* the matches of m's (EpisodeKey, quality) pair among the matches ms
SamePair(ms, m) ==
    {i \in 1..Len(ms) : ms[i].episode # << >> /\ EpKey(ms[i].episode) = EpKey(m.episode)
                           /\ ms[i].quality = m.quality}

(***************************************************************************)
(* C2: last write wins.  The index of a text holds exactly the (EpisodeKey, *)
(* quality) pairs that the matches of the text have, and for each pair the *)
(* URL of the last match of that pair in the text, however many matches    *)
(* with other URLs precede it; the rendered line of the key links the      *)
(* quality to that URL.                                                    *)
(***************************************************************************)
C2_LastWriteWins ==
    Parsed =>
        LET ms == finditer(text)
            ls == OutputLinesOf(output)
        IN  /\ \A i \in 1..Len(ms) :
                  LET k == EpKey(ms[i].episode)
                      last == ms[Greatest(SamePair(ms, ms[i]))]
                  IN  /\ HasKey(episodes, k)
                      /\ ms[i].quality \in DOMAIN Lookup(episodes, k)
                      /\ Lookup(episodes, k)[ms[i].quality] = last.url
                      /\ Formatted =>
                            /\ LinesOfKey(ls, k) # {}
                            /\ \A j \in LinesOfKey(ls, k) :
                                  LinkTargets(ls[j], ms[i].quality) = {last.url}
            /\ \A e \in 1..Len(episodes) : \A q \in DOMAIN episodes[e].links :
                  \E i \in 1..Len(ms) :
                      EpKey(ms[i].episode) = episodes[e].key /\ ms[i].quality = q

\* the text holds two matches of one pair with different URLs and a match of
\* another pair, and has been rendered
C2_Witness ==
    /\ Rendered
    /\ LET ms == finditer(text)
       IN  \E i \in 1..Len(ms), j \in 1..Len(ms), n \in 1..Len(ms) :
              /\ i < j
              /\ j \in SamePair(ms, ms[i])
              /\ ms[i].url # ms[j].url
              /\ n \notin SamePair(ms, ms[i])

(***************************************************************************)
(* C3: for every episode of the index, whichever tiers its table holds,    *)
(* its rendered line has exactly three tier fields, labelled 480P, 720P,   *)
(* 1080P in this order; the field of a tier the table holds is a link to   *)
(* the stored URL, the field of a tier it lacks is the struck-through      *)
(* label without a link target.                                            *)
(***************************************************************************)
C3_ThreeTierFields ==
    Formatted =>
        LET ls == OutputLinesOf(output)
        IN  \A e \in 1..Len(episodes) :
            /\ LinesOfKey(ls, episodes[e].key) # {}
            /\ \A j \in LinesOfKey(ls, episodes[e].key) :
                LET fs == LineFields(ls[j])
                    links == episodes[e].links
                IN  /\ Len(fs) = 3
                    /\ \A n \in 1..3 :
                          /\ fs[n].kind \in {"link", "struck"}
                          /\ fs[n].label = TierLabels[n]
                          /\ fs[n].kind = "link" <=> QUALITIES[n] \in DOMAIN links
                          /\ fs[n].kind = "link" => fs[n].target = links[QUALITIES[n]]

\* a rendered index with an episode that has the 720 link alone and another
\* episode that has two tiers
C3_Witness ==
    /\ Formatted
    /\ \E e \in 1..Len(episodes) : DOMAIN episodes[e].links = {Q720}
    /\ \E e \in 1..Len(episodes) : Cardinality(DOMAIN episodes[e].links) = 2

\* the well-formed lines: season marker, episode marker, quality, URL
SeasonPool == { <<"1">>, <<"0", "2">> }

EpisodePool == { <<"5">>, <<"0", "5">>, <<"0", "0", "5">>, <<"1", "2">> }

WellFormed ==
    [season : SeasonPool, episode : EpisodePool, quality : QualitySet, url : UrlPool]

\* the records that the input line l supplies
Supplied(l) ==
    {r \in WellFormed : l = RecordLine(r.season, r.episode, r.quality, r.url)}

\* the rendered lines ls show r's URL as the link target of r's tier on a line of
\* r's episode number
Recovered(ls, r) ==
    \E j \in 1..Len(ls) :
        /\ LineLabel(ls[j]) # << >>
        /\ LabelNumber(LineLabel(ls[j])) = ToInt(r.episode)
        /\ r.url \in LinkTargets(ls[j], r.quality)

\* a line after line n of the input lines supplies a record of r's EpisodeKey
\* and quality
Replaced(lines, n, r) ==
    \E m \in (n + 1)..Len(lines) : \E r2 \in Supplied(lines[m]) :
        EpKey(r2.episode) = EpKey(r.episode) /\ r2.quality = r.quality

FormatCalled == pc = "formatted"

AllDigits(t, i, n) == i + n - 1 <= Len(t) /\ \A x \in i..(i + n - 1) : IsDigit(t[x])

\* some part of t belongs to the language of the pattern: S, digits, -E, digits,
\* any characters of one line, a quality, any characters of one line, the URL
\* prefix and a non-whitespace character
PatternOccurs(t) ==
    \E s \in 1..Len(t) :
        /\ t[s] = "S"
        /\ \E n1 \in 1..(Len(t) - s) :
              /\ AllDigits(t, s + 1, n1)
              /\ HasLit(t, s + 1 + n1, <<"-", "E">>)
              /\ \E n2 \in 1..(Len(t) - s) :
                    /\ AllDigits(t, s + n1 + 3, n2)
                    /\ \E j \in (s + n1 + 3 + n2)..Len(t) :
                          \E q \in QualitySet :
                              /\ HasLit(t, j, q)
                              /\ \E u \in (j + Len(q))..Len(t) :
                                    /\ HasLit(t, u, URL_PREFIX)
                                    /\ u + Len(URL_PREFIX) <= Len(t)
                                    /\ ~IsSpace(t[u + Len(URL_PREFIX)])
                                    /\ \A x \in (s + n1 + 3 + n2)..(u - 1) :
                                          t[x] # NEWLINE

\* the value is an index: entries with distinct keys, each with a table
IsIndex(ix) ==
    /\ DOMAIN ix = 1..Len(ix)
    /\ \A i \in 1..Len(ix) : DOMAIN ix[i] = {"key", "links"}
    /\ \A i \in 1..Len(ix), j \in 1..Len(ix) : ix[i].key = ix[j].key => i = j

(***************************************************************************)
(* C6: parse_bulk_output returns an index for every text, the empty text   *)
(* and texts without a full four-field match included, and the index is    *)
(* empty exactly when no part of the text matches the pattern.             *)
(***************************************************************************)
C6_TotalEmptyIffNoMatch ==
    ParseReturned =>
        /\ IsIndex(episodes)
        /\ episodes = << >> <=> ~PatternOccurs(text)

\* the text holds the four fields in order, but on two lines, and a URL without
\* the scheme: its index is empty
C6_Witness ==
    /\ ParseReturned
    /\ text = Join(<<NoUrlLine, NoMarkerLine, NoSchemeLine>>, <<NEWLINE>>)
    /\ episodes = << >>

\* the three tiers, written out
TierNames == { <<"4", "8", "0">>, <<"7", "2", "0">>, <<"1", "0", "8", "0">> }

\* a whitespace-free string that begins with https://t.me/ and goes on
IsTelegramUrl(v) ==
    /\ Len(v) > 13
    /\ SubSeq(v, 1, 13) = <<"h", "t", "t", "p", "s", ":", "/", "/", "t", ".", "m", "e", "/">>
    /\ \A i \in 1..Len(v) : v[i] \notin {" ", "\n", "\t"}

(***************************************************************************)
(* C7: in every index returned by parse_bulk_output each key maps to a     *)
(* non-empty table whose keys are among 480, 720, 1080 and whose values    *)
(* are whitespace-free strings beginning with https://t.me/ followed by at *)
(* least one character.                                                    *)
(***************************************************************************)
C7_TablesWellFormed ==
    ParseReturned =>
        \A e \in 1..Len(episodes) :
            /\ DOMAIN episodes[e].links # {}
            /\ DOMAIN episodes[e].links \subseteq TierNames
            /\ \A q \in DOMAIN episodes[e].links : IsTelegramUrl(episodes[e].links[q])

\* an index of two episodes parsed from a text that also has a line whose URL
\* stops after the prefix
C7_Witness ==
    /\ ParseReturned
    /\ Len(episodes) = 2
    /\ \E n \in 1..Len(SplitLines(text)) : SplitLines(text)[n] = NoUrlLine

(***************************************************************************)
(* C8 as claimed: matches whose episode numbers are numerically equal get  *)
(* the same EpisodeKey however many leading zeros they are written with,   *)
(* so the index has no two keys of the same numeric value and no number is *)
(* rendered on more than one line.                                         *)
(***************************************************************************)
C8_OneKeyPerEpisodeNumber ==
    Parsed =>
        /\ \A e \in 1..Len(episodes), f \in 1..Len(episodes) :
              ToInt(Tail(episodes[e].key)) = ToInt(Tail(episodes[f].key)) => e = f
        /\ Formatted =>
              LET ls == OutputLinesOf(output)
              IN  \A i \in 1..Len(ls), j \in 1..Len(ls) :
                      LabelNumber(LineLabel(ls[i])) = LabelNumber(LineLabel(ls[j]))
                          => i = j

\* another season number, one that is also a quality
OtherSeason == <<"4", "8", "0">>

RECURSIVE WithSeasons(_, _, _)
\* text t with the season of every match of ms whose number is in C replaced by
\* OtherSeason (from the last match to the first, so that positions stay valid)
WithSeasons(t, ms, C) ==
    IF ms = << >> THEN t
    ELSE LET n == Len(ms)
             m == ms[n]
             t2 == IF n \in C
                   THEN SubSeq(t, 1, m.start) \o OtherSeason
                            \o SubSeq(t, m.start + 1 + Len(m.season), Len(t))
                   ELSE t
         IN  WithSeasons(t2, SubSeq(ms, 1, n - 1), C)

\* the texts that differ from t only in the season numbers of its records
SeasonVariants(t) ==
    LET ms == finditer(t)
    IN  {WithSeasons(t, ms, C) : C \in {1..Len(ms)} \cup {{i} : i \in 1..Len(ms)}}

(***************************************************************************)
(* C9: the season number has no effect.  A text that differs from the      *)
(* parsed text only in the season numbers of its records yields the same   *)
(* index (same keys in the same order, same tables) and the same rendered  *)
(* output; records of different seasons with one episode number share one  *)
(* key.                                                                    *)
(***************************************************************************)
C9_SeasonHasNoEffect ==
    Rendered =>
        \A t2 \in SeasonVariants(text) :
            LET ix == parse_bulk_output(t2)
            IN  ix = episodes /\ format_output(ix) = output

\* a rendered text with records of season 1 and season 02 for episode 5, merged
\* under one key
C9_Witness ==
    /\ Rendered
    /\ LET ms == finditer(text)
       IN  \E i \in 1..Len(ms), j \in 1..Len(ms) :
              /\ ms[i].season # ms[j].season
              /\ EpKey(ms[i].episode) = EpKey(ms[j].episode)
    /\ Cardinality(SeasonVariants(text)) >= 3

(***************************************************************************)
(* The bot: one action per handler registered in main (lines 297-306).     *)
(* The updates are handled one at a time, each handler running to its end. *)
(***************************************************************************)
Init == BotInit /\ CoreIdle

\* user_id in user_sessions
HasSession(u) == u \in DOMAIN user_sessions

\* user_sessions = {u: v}: the table replaced by one that holds u alone
SessionsOnly(u, v) == [x \in {u} |-> v]

\* user_sessions[u] = v
SessionsWith(u, v) ==
    [x \in DOMAIN user_sessions \cup {u} |-> IF x = u THEN v ELSE user_sessions[x]]

\* the entry of u emptied where it should be removed
SessionsEmptied(u) ==
    [x \in DOMAIN user_sessions |->
        IF x = u THEN [collecting |-> TRUE, messages |-> << >>] ELSE user_sessions[x]]

\* del user_sessions[u]
SessionsWithout(u) == [x \in DOMAIN user_sessions \ {u} |-> user_sessions[x]]

\* an update arrives and is logged for its user
Logged(u, cmd, msg) ==
    /\ handled < MaxUpdates
    /\ handled' = handled + 1
    /\ received' = [received EXCEPT ![u] =
                        IF cmd = "upload" THEN <<[cmd |-> cmd, text |-> msg]>>
                        ELSE Append(@, [cmd |-> cmd, text |-> msg])]

\* an update arrives for a handler that changes user_sessions only before its
\* first await: the handler runs as one step
Receive(u, cmd, msg) ==
    /\ Logged(u, cmd, msg)
    /\ UNCHANGED awaiting

\* an update that no session depends on arrives
ReceiveOther ==
    /\ handled < MaxUpdates
    /\ handled' = handled + 1
    /\ UNCHANGED <<received, awaiting>>

Reply(kind) == [kind |-> kind]

\* /start (lines 85-96)
start(u) ==
    /\ ReceiveOther
    /\ replies' = <<Reply("welcome")>>
    /\ calls' = << >>
    /\ UNCHANGED <<user_sessions, coreVars>>

\* /help (lines 98-114)
help_command(u) ==
    /\ ReceiveOther
    /\ replies' = <<Reply("help")>>
    /\ calls' = << >>
    /\ UNCHANGED <<user_sessions, coreVars>>

\* /upload (lines 116-133)
upload_command(u) ==
    /\ Receive(u, "upload", << >>)
    /\ user_sessions' = SessionsWith(u, [collecting |-> TRUE, messages |-> << >>])
    /\ replies' = <<Reply("upload mode activated")>>
    /\ calls' = << >>
    /\ UNCHANGED coreVars

\* /cancel that stops the collecting of the session where it should delete it
cancel_commandStopsCollecting(u) ==
    /\ Receive(u, "cancel", << >>)
    /\ IF HasSession(u)
       THEN /\ user_sessions' = [user_sessions EXCEPT ![u].collecting = FALSE]
            /\ replies' = <<Reply("session cancelled")>>
       ELSE /\ UNCHANGED user_sessions
            /\ replies' = <<Reply("no active session")>>
    /\ calls' = << >>
    /\ UNCHANGED coreVars

\* /cancel (lines 135-152)
cancel_command(u) ==
    /\ Receive(u, "cancel", << >>)
    /\ IF HasSession(u)
       THEN /\ user_sessions' = SessionsWithout(u)
            /\ replies' = <<Reply("session cancelled")>>
       ELSE /\ UNCHANGED user_sessions
            /\ replies' = <<Reply("no active session")>>
    /\ calls' = << >>
    /\ UNCHANGED coreVars

\* /clear that leaves the collected messages in place
clear_commandKeepsMessages(u) ==
    /\ Receive(u, "clear", << >>)
    /\ IF HasSession(u)
       THEN /\ UNCHANGED user_sessions
            /\ replies' = <<Reply("links cleared")>>
       ELSE /\ UNCHANGED user_sessions
            /\ replies' = <<Reply("no active session")>>
    /\ calls' = << >>
    /\ UNCHANGED coreVars

\* /clear (lines 154-169)
clear_command(u) ==
    /\ Receive(u, "clear", << >>)
    /\ IF HasSession(u)
       THEN /\ user_sessions' = [user_sessions EXCEPT ![u].messages = << >>]
            /\ replies' = <<Reply("links cleared")>>
       ELSE /\ UNCHANGED user_sessions
            /\ replies' = <<Reply("no active session")>>
    /\ calls' = << >>
    /\ UNCHANGED coreVars

\* /status (lines 171-190)
status_command(u) ==
    /\ ReceiveOther
    /\ IF HasSession(u) /\ user_sessions[u].collecting
       THEN replies' = <<[kind |-> "status active", user |-> u,
                          count |-> Len(user_sessions[u].messages)]>>
       ELSE replies' = <<[kind |-> "no active session", user |-> u]>>
    /\ calls' = << >>
    /\ UNCHANGED <<user_sessions, coreVars>>

\* a text stored in front of the collected messages
collect_messagesInFront(u, user_text) ==
    /\ Receive(u, "text", user_text)
    /\ IF ~HasSession(u) \/ ~user_sessions[u].collecting
       THEN /\ UNCHANGED user_sessions
            /\ replies' = << >>
       ELSE /\ user_sessions' =
                  [user_sessions EXCEPT ![u].messages = <<user_text>> \o @]
            /\ replies' = <<[kind |-> "message collected",
                             count |-> Len(user_sessions'[u].messages)]>>
    /\ calls' = << >>
    /\ UNCHANGED coreVars

\* a text that is no command (lines 192-213)
collect_messages(u, user_text) ==
    /\ Receive(u, "text", user_text)
    /\ IF ~HasSession(u) \/ ~user_sessions[u].collecting
       THEN /\ UNCHANGED user_sessions
            /\ replies' = << >>
       ELSE /\ user_sessions' =
                  [user_sessions EXCEPT ![u].messages = Append(@, user_text)]
            /\ replies' = <<[kind |-> "message collected",
                             count |-> Len(user_sessions'[u].messages)]>>
    /\ calls' = << >>
    /\ UNCHANGED coreVars

\* the ways a reply of format_command can fail to be sent
SendFailures == {"none", "result", "completed"}

\* /format that renders whatever index parse_bulk_output returns
format_commandNoEmptyCheck(u, fail) ==
    /\ Receive(u, "format", << >>)
    /\ IF ~HasSession(u)
       THEN /\ replies' = <<Reply("no upload session found")>>
            /\ calls' = << >>
            /\ UNCHANGED user_sessions
       ELSE IF user_sessions[u].messages = << >>
       THEN /\ replies' = <<Reply("no messages collected")>>
            /\ calls' = << >>
            /\ UNCHANGED user_sessions
       ELSE \E combined_text \in {Join(user_sessions[u].messages, <<NEWLINE>>)} :
            \E parsed \in {parse_bulk_output(combined_text)} :
            LET parse_call == [fn |-> "parse_bulk_output", user |-> u,
                               arg |-> combined_text]
                format_call == [fn |-> "format_output", user |-> u, arg |-> parsed]
                result == [kind |-> "formatted result",
                           text |-> format_output(parsed),
                           total |-> Len(parsed)]
            IN  IF FormatRaises(parsed) \/ fail = "result"
                THEN /\ replies' = <<Reply("an error occurred")>>
                     /\ calls' = <<parse_call, format_call>>
                     /\ UNCHANGED user_sessions
                ELSE /\ user_sessions' = SessionsWithout(u)
                     /\ calls' = <<parse_call, format_call>>
                     /\ replies' = IF fail = "completed"
                                   THEN <<result, Reply("an error occurred")>>
                                   ELSE <<result, Reply("session completed")>>
    /\ UNCHANGED coreVars

\* /format that deletes the session before it sends the result
format_commandDeletesFirst(u, fail) ==
    /\ Receive(u, "format", << >>)
    /\ IF ~HasSession(u)
       THEN /\ replies' = <<Reply("no upload session found")>>
            /\ calls' = << >>
            /\ UNCHANGED user_sessions
       ELSE IF user_sessions[u].messages = << >>
       THEN /\ replies' = <<Reply("no messages collected")>>
            /\ calls' = << >>
            /\ UNCHANGED user_sessions
       ELSE \E combined_text \in {Join(user_sessions[u].messages, <<NEWLINE>>)} :
            \E parsed \in {parse_bulk_output(combined_text)} :
            LET parse_call == [fn |-> "parse_bulk_output", user |-> u,
                               arg |-> combined_text]
                format_call == [fn |-> "format_output", user |-> u, arg |-> parsed]
                result == [kind |-> "formatted result",
                           text |-> format_output(parsed),
                           total |-> Len(parsed)]
            IN  IF parsed = << >>
                THEN /\ replies' = <<Reply("no valid episode links found")>>
                     /\ calls' = <<parse_call>>
                     /\ UNCHANGED user_sessions
                ELSE IF FormatRaises(parsed)
                THEN /\ replies' = <<Reply("an error occurred")>>
                     /\ calls' = <<parse_call, format_call>>
                     /\ UNCHANGED user_sessions
                ELSE /\ user_sessions' = SessionsWithout(u)
                     /\ calls' = <<parse_call, format_call>>
                     /\ replies' = IF fail = "result"
                                   THEN <<Reply("an error occurred")>>
                                   ELSE IF fail = "completed"
                                   THEN <<result, Reply("an error occurred")>>
                                   ELSE <<result, Reply("session completed")>>
    /\ UNCHANGED coreVars

\* /format (lines 215-284); fail names the reply_text call that raises
format_command(u, fail) ==
    /\ Receive(u, "format", << >>)
    /\ IF ~HasSession(u)
       THEN /\ replies' = <<Reply("no upload session found")>>
            /\ calls' = << >>
            /\ UNCHANGED user_sessions
       ELSE IF user_sessions[u].messages = << >>
       THEN /\ replies' = <<Reply("no messages collected")>>
            /\ calls' = << >>
            /\ UNCHANGED user_sessions
       ELSE \E combined_text \in {Join(user_sessions[u].messages, <<NEWLINE>>)} :
            \E parsed \in {parse_bulk_output(combined_text)} :
            LET parse_call == [fn |-> "parse_bulk_output", user |-> u,
                               arg |-> combined_text]
                format_call == [fn |-> "format_output", user |-> u, arg |-> parsed]
                result == [kind |-> "formatted result",
                           text |-> format_output(parsed),
                           total |-> Len(parsed)]
            IN  IF parsed = << >>
                THEN /\ replies' = <<Reply("no valid episode links found")>>
                     /\ calls' = <<parse_call>>
                     /\ UNCHANGED user_sessions
                ELSE IF FormatRaises(parsed) \/ fail = "result"
                THEN /\ replies' = <<Reply("an error occurred")>>
                     /\ calls' = <<parse_call, format_call>>
                     /\ UNCHANGED user_sessions
                ELSE /\ user_sessions' = SessionsWithout(u)
                     /\ calls' = <<parse_call, format_call>>
                     /\ replies' = IF fail = "completed"
                                   THEN <<result, Reply("an error occurred")>>
                                   ELSE <<result, Reply("session completed")>>
    /\ UNCHANGED coreVars

Next ==
    \/ \E u \in Users : start(u)
    \/ \E u \in Users : help_command(u)
    \/ \E u \in Users : upload_command(u)
    \/ \E u \in Users : cancel_command(u)
    \/ \E u \in Users : clear_command(u)
    \/ \E u \in Users : status_command(u)
    \/ \E u \in Users, user_text \in MsgPool : collect_messages(u, user_text)
    \/ \E u \in Users, fail \in SendFailures : format_command(u, fail)

Spec == Init /\ [][Next]_vars

(***************************************************************************)
(* The handlers run as coroutines that may interleave at their awaits.     *)
(* Every handler but format_command changes user_sessions only before its  *)
(* first await and so still runs as one step.  format_command runs in two: *)
(* up to the await of the reply that sends the result (line 262), and from *)
(* there to its end.                                                       *)
(***************************************************************************)
\* format_command, lines 215-262: up to the await of the result
format_command_begin(u) ==
    /\ Logged(u, "format", << >>)
    /\ IF ~HasSession(u)
       THEN /\ replies' = <<Reply("no upload session found")>>
            /\ calls' = << >>
            /\ UNCHANGED awaiting
       ELSE IF user_sessions[u].messages = << >>
       THEN /\ replies' = <<Reply("no messages collected")>>
            /\ calls' = << >>
            /\ UNCHANGED awaiting
       ELSE \E combined_text \in {Join(user_sessions[u].messages, <<NEWLINE>>)} :
            \E parsed \in {parse_bulk_output(combined_text)} :
            LET parse_call == [fn |-> "parse_bulk_output", user |-> u,
                               arg |-> combined_text]
                format_call == [fn |-> "format_output", user |-> u, arg |-> parsed]
                result == [kind |-> "formatted result",
                           text |-> format_output(parsed),
                           total |-> Len(parsed)]
            IN  IF parsed = << >>
                THEN /\ replies' = <<Reply("no valid episode links found")>>
                     /\ calls' = <<parse_call>>
                     /\ UNCHANGED awaiting
                ELSE IF FormatRaises(parsed)
                THEN /\ replies' = <<Reply("an error occurred")>>
                     /\ calls' = <<parse_call, format_call>>
                     /\ UNCHANGED awaiting
                ELSE /\ replies' = << >>
                     /\ calls' = <<parse_call, format_call>>
                     /\ awaiting' = Append(awaiting,
                            [user_id |-> u, combined_text |-> combined_text,
                             full_output |-> result])
    /\ UNCHANGED <<user_sessions, coreVars>>

\* the sequence without its k-th element
Without(seq, k) == SubSeq(seq, 1, k - 1) \o SubSeq(seq, k + 1, Len(seq))

\* format_command, lines 262-284: from the await of the result to the end, for
\* the k-th suspended run; del raises KeyError when the entry is gone
format_command_resume(k, fail) ==
    /\ k \in 1..Len(awaiting)
    /\ awaiting' = Without(awaiting, k)
    /\ LET run == awaiting[k]
       IN  IF fail = "result"
           THEN /\ replies' = <<Reply("an error occurred")>>
                /\ UNCHANGED user_sessions
           ELSE IF ~HasSession(run.user_id)
           THEN /\ replies' = <<run.full_output,
                                [kind |-> "an error occurred", error |-> "KeyError"]>>
                /\ UNCHANGED user_sessions
           ELSE /\ user_sessions' = SessionsWithout(run.user_id)
                /\ replies' = IF fail = "completed"
                              THEN <<run.full_output, Reply("an error occurred")>>
                              ELSE <<run.full_output, Reply("session completed")>>
    /\ calls' = << >>
    /\ UNCHANGED <<received, handled, coreVars>>

InterleavedNext ==
    \/ \E u \in Users : start(u)
    \/ \E u \in Users : help_command(u)
    \/ \E u \in Users : upload_command(u)
    \/ \E u \in Users : cancel_command(u)
    \/ \E u \in Users : clear_command(u)
    \/ \E u \in Users : status_command(u)
    \/ \E u \in Users, user_text \in MsgPool : collect_messages(u, user_text)
    \/ \E u \in Users : format_command_begin(u)
    \/ \E k \in 1..MaxUpdates, fail \in SendFailures : format_command_resume(k, fail)

SpecInterleaved == Init /\ [][InterleavedNext]_vars

\* the texts of the updates of a log, in order
IsText(update) == update.cmd = "text"

TextsOf(log) ==
    LET ts == SelectSeq(log, IsText) IN [i \in 1..Len(ts) |-> ts[i].text]

\* the texts a user sent since their most recent /upload or /clear: the log
\* starts after the last /upload, so those after its last /clear
TextsSinceReset(log) ==
    LET clears == {i \in 1..Len(log) : log[i].cmd = "clear"}
        from == IF clears = {} THEN 1 ELSE Greatest(clears) + 1
    IN  TextsOf(SubSeq(log, from, Len(log)))

\* the newline-join of texts, character by character
RECURSIVE JoinedByNewline(_)
JoinedByNewline(ts) ==
    IF ts = << >> THEN << >>
    ELSE IF Len(ts) = 1 THEN ts[1]
    ELSE JoinedByNewline(SubSeq(ts, 1, Len(ts) - 1)) \o <<"\n">> \o ts[Len(ts)]

(***************************************************************************)
(* C10: whatever commands and texts the users have sent, the text that     *)
(* /format hands to parse_bulk_output is the newline-join, in arrival      *)
(* order, of exactly the texts its user sent since that user's most recent *)
(* /upload or /clear: nothing sent before it, before a /cancel or before   *)
(* an earlier successful /format is part of it.                            *)
(***************************************************************************)
C10_HandedTextIsTextsSinceReset ==
    \A i \in 1..Len(calls) :
        calls[i].fn = "parse_bulk_output" =>
            calls[i].arg = JoinedByNewline(TextsSinceReset(received[calls[i].user]))

\* /format has handed over exactly the text sent after a /clear that dropped
\* an earlier, different text
C10_Witness ==
    \E i \in 1..Len(calls) :
        /\ calls[i].fn = "parse_bulk_output"
        /\ LET log == received[calls[i].user]
           IN  /\ Len(TextsOf(log)) = 2
               /\ TextsOf(log)[1] # TextsOf(log)[2]
               /\ TextsSinceReset(log) = <<TextsOf(log)[2]>>
               /\ calls[i].arg = TextsOf(log)[2]
(***************************************************************************)
(* C11: the core is stateless.  A call of parse_bulk_output or             *)
(* format_output leaves user_sessions unchanged, format_output leaves the  *)
(* index it is given unchanged, and the result of a call is the result of  *)
(* the function on its argument alone, whatever sessions exist and         *)
(* whatever calls were made before.                                        *)
(***************************************************************************)
C11_CoreIsStateless ==
    [][ /\ user_sessions' = user_sessions
        /\ (pc = "parsed" /\ pc' = "formatted" => episodes' = episodes)
        /\ (pc' = "parsed" => episodes' = parse_bulk_output(text'))
        /\ (pc' = "formatted" /\ outcome' = "returned"
                => output' = format_output(parse_bulk_output(text'))) ]_vars

\* a later call has parsed a text into an index other than the one the earlier
\* call rendered, with a session in the table
C11_Witness ==
    /\ pc = "parsed"
    /\ user_sessions # << >>
    /\ output # << >>
    /\ episodes # << >>
    /\ output # format_output(episodes)
    /\ episodes = parse_bulk_output(text)

\* the calls of fn made by the last handler
CallsOf(fn) == {i \in 1..Len(calls) : calls[i].fn = fn}

(***************************************************************************)
(* C12: the caller checks emptiness before rendering.  format_command      *)
(* calls format_output only with a non-empty index; when parse_bulk_output *)
(* returns an empty index the only reply is 'No valid episode links found' *)
(* and format_output is not called.                                        *)
(***************************************************************************)
C12_FormatOutputOnlyOnNonEmptyIndex ==
    /\ \A i \in CallsOf("format_output") : calls[i].arg # << >>
    /\ \A i \in CallsOf("parse_bulk_output") :
          parse_bulk_output(calls[i].arg) = << >> =>
              /\ CallsOf("format_output") = {}
              /\ replies = <<Reply("no valid episode links found")>>

\* /format has parsed the collected texts to an empty index
C12_Witness ==
    /\ \E i \in CallsOf("parse_bulk_output") :
          /\ calls[i].arg # << >>
          /\ parse_bulk_output(calls[i].arg) = << >>
    /\ CallsOf("format_output") = {}
    /\ replies = <<Reply("no valid episode links found")>>

\* the step handles the update cmd of user u
Handles(u, cmd) ==
    /\ Len(received'[u]) = Len(received[u]) + 1
    /\ received'[u][Len(received'[u])].cmd = cmd

\* the replies of the handler that has just run hold one of this kind
Replied(kind) == \E i \in 1..Len(replies) : replies[i].kind = kind

(***************************************************************************)
(* C13: every unsuccessful /format leaves user_sessions unchanged.  When   *)
(* the formatted result has not been sent (no session, no messages, no     *)
(* link found, or sending the result raised) the session of the user, if   *)
(* any, is still there with the same messages.                             *)
(***************************************************************************)
C13_UnsuccessfulFormatKeepsSessions ==
    [][ \A u \in Users :
            Handles(u, "format") /\ ~Replied("formatted result")'
                => user_sessions' = user_sessions ]_vars

\* sending the formatted result has failed and the session still holds the
\* texts that were formatted
C13_Witness ==
    \E u \in Users :
        /\ received[u] # << >>
        /\ received[u][Len(received[u])].cmd = "format"
        /\ CallsOf("format_output") # {}
        /\ replies = <<Reply("an error occurred")>>
        /\ HasSession(u)
        /\ Join(user_sessions[u].messages, <<NEWLINE>>) = calls[1].arg

(***************************************************************************)
(* C14: a successful /format ends the session.  Once the formatted result  *)
(* has been sent the entry of the user is removed; and while the user has  *)
(* no entry, which lasts until their next /upload, a text of theirs is     *)
(* ignored (nothing stored, no reply) and a /format of theirs is answered  *)
(* 'No upload session found'.                                              *)
(***************************************************************************)
C14_SuccessfulFormatEndsSession ==
    [][ \A u \in Users :
          /\ Handles(u, "format") /\ Replied("formatted result")'
                => ~HasSession(u)'
          /\ ~HasSession(u) =>
                /\ Handles(u, "text") =>
                      user_sessions' = user_sessions /\ replies' = << >>
                /\ Handles(u, "format") =>
                      /\ user_sessions' = user_sessions
                      /\ replies' = <<Reply("no upload session found")>>
                /\ HasSession(u)' =>
                      /\ received'[u] = <<[cmd |-> "upload", text |-> << >>]>>
                      /\ replies' = <<Reply("upload mode activated")>> ]_vars

\* after /upload, a text and a /format that ended the session, a further text
\* has been ignored
C14_Witness ==
    \E u \in Users :
        /\ Len(received[u]) = 4
        /\ received[u][1].cmd = "upload"
        /\ received[u][2].cmd = "text"
        /\ received[u][3].cmd = "format"
        /\ received[u][4].cmd = "text"
        /\ ~HasSession(u)
        /\ replies = << >>

\* the last update logged for a user
LastReceived(log) == log[Len(log)]

(***************************************************************************)
(* C15: a text of a user without a session is ignored: user_sessions is    *)
(* unchanged and no reply is sent.  A text of a user with a session is     *)
(* appended at the end of the messages of that user, the earlier messages  *)
(* and the rest of user_sessions stay as they were, and the count in the   *)
(* reply is the new number of messages.                                    *)
(***************************************************************************)
C15_TextIgnoredOrAppended ==
    [][ \A u \in Users :
          Handles(u, "text") =>
            IF ~HasSession(u)
            THEN user_sessions' = user_sessions /\ replies' = << >>
            ELSE LET before == user_sessions[u].messages
                     after == user_sessions'[u].messages
                 IN  /\ DOMAIN user_sessions' = DOMAIN user_sessions
                     /\ \A v \in DOMAIN user_sessions \ {u} :
                            user_sessions'[v] = user_sessions[v]
                     /\ user_sessions'[u].collecting = user_sessions[u].collecting
                     /\ Len(after) = Len(before) + 1
                     /\ SubSeq(after, 1, Len(before)) = before
                     /\ after[Len(after)] = LastReceived(received'[u]).text
                     /\ Len(replies') = 1
                     /\ replies'[1].kind = "message collected"
                     /\ replies'[1].count = Len(after) ]_vars

\* a second, different text has been collected behind the first
C15_Witness ==
    \E u \in Users :
        /\ HasSession(u)
        /\ Len(user_sessions[u].messages) = 2
        /\ user_sessions[u].messages[1] # user_sessions[u].messages[2]
        /\ LastReceived(received[u]).cmd = "text"
        /\ LastReceived(received[u]).text = user_sessions[u].messages[2]
        /\ replies = <<[kind |-> "message collected", count |-> 2]>>

\* /clear of u empties the messages of an existing entry and keeps the entry,
\* /cancel of u removes the entry, and both change nothing without an entry
ClearKeepsCancelRemoves(u) ==
    /\ Handles(u, "clear") /\ HasSession(u) =>
          /\ DOMAIN user_sessions' = DOMAIN user_sessions
          /\ user_sessions'[u].messages = << >>
          /\ user_sessions'[u].collecting
          /\ \A v \in DOMAIN user_sessions \ {u} : user_sessions'[v] = user_sessions[v]
    /\ Handles(u, "cancel") /\ HasSession(u) =>
          /\ DOMAIN user_sessions' = DOMAIN user_sessions \ {u}
          /\ \A v \in DOMAIN user_sessions' : user_sessions'[v] = user_sessions[v]
    /\ (Handles(u, "clear") \/ Handles(u, "cancel")) /\ ~HasSession(u) =>
          user_sessions' = user_sessions

\* a /format of u that follows their /clear in a session is not turned down
\* for want of messages
FormatUsableAfterClear(u) ==
    Handles(u, "format") /\ HasSession(u) /\ LastReceived(received[u]).cmd = "clear"
        => ~Replied("no messages collected")'

(***************************************************************************)
(* C16: /clear in an active session empties the collected messages and     *)
(* keeps the session, /cancel removes the session, both leave              *)
(* user_sessions unchanged when the user has no session; and after /clear  *)
(* the user can use /format with the current data, as the reply to /clear  *)
(* says.                                                                   *)
(***************************************************************************)
C16_ClearKeepsSessionFormatUsable ==
    [][ \A u \in Users : ClearKeepsCancelRemoves(u) /\ FormatUsableAfterClear(u) ]_vars

\* the replies of /status, which name the user they answer
StatusReplies == {i \in 1..Len(replies) : "user" \in DOMAIN replies[i]}

(***************************************************************************)
(* C17: every entry of user_sessions has collecting = TRUE, so a user is   *)
(* in upload mode exactly when they have an entry: /status reports         *)
(* 'Active' if and only if the entry exists, and collect_messages stores   *)
(* a text if and only if the entry exists.                                 *)
(***************************************************************************)
C17_EntryMeansCollecting ==
    [][ /\ \A u \in DOMAIN user_sessions' : user_sessions'[u].collecting
        /\ \A i \in StatusReplies' :
              replies'[i].kind = "status active"
                  <=> replies'[i].user \in DOMAIN user_sessions'
        /\ \A u \in Users :
              Handles(u, "text") =>
                  (user_sessions' # user_sessions <=> HasSession(u)) ]_vars

\* /status has reported an active session with a collected text
C17_Witness ==
    \E u \in Users :
        /\ HasSession(u)
        /\ user_sessions[u].messages # << >>
        /\ replies = <<[kind |-> "status active", user |-> u,
                        count |-> Len(user_sessions[u].messages)]>>

\* the entry of v in a session table, if any
EntryOf(sessions, v) == {sessions[x] : x \in DOMAIN sessions \cap {v}}

(***************************************************************************)
(* C18: per-user isolation.  Under every interleaving of the updates of    *)
(* two users, a handler run for one user leaves the entry of the other     *)
(* user unchanged, and the output of a /format is determined by the texts  *)
(* its own user sent.                                                      *)
(***************************************************************************)
C18_PerUserIsolation ==
    [][ /\ \A v \in Users :
              received'[v] = received[v]
                  => EntryOf(user_sessions', v) = EntryOf(user_sessions, v)
        /\ \A i \in 1..Len(replies') :
              replies'[i].kind = "formatted result" =>
                  \A own \in {JoinedByNewline(TextsSinceReset(received'[calls'[1].user]))} :
                  \A index \in {parse_bulk_output(own)} :
                      replies'[i].text = format_output(index) ]_vars

\* one user has got their formatted result while the other user's session
\* holds a different collected text
C18_Witness ==
    /\ Replied("formatted result")
    /\ \E v \in Users \ {calls[1].user} :
          /\ HasSession(v)
          /\ user_sessions[v].messages # << >>
          /\ Join(user_sessions[v].messages, <<NEWLINE>>) # calls[1].arg

====
